---- MODULE Spec2Model ----
(***************************************************************************)
(* Model of PolDeepNer's wrapper.Sequence (src/wrapper.py): the facade     *)
(* that drives VectorTransformer, BiLSTMCRF, Trainer, load_data and the    *)
(* save_model/load_model pair.  The methods of Sequence are translated     *)
(* from src/wrapper.py; the collaborators it imports are modelled from     *)
(* their documented interface.                                             *)
(***************************************************************************)
EXTENDS Integers, Sequences, FiniteSets, TLC

VARIABLES
    self,         \* the Sequence object the caller holds: model, p, best_report
    trainer,      \* the Trainer of the fit just made (local `trainer`), else None
    fs,           \* bundle directories: fs[model_path][file name]
    output_file,  \* what the last call wrote to its output file, Absent if it opened none
    op,           \* the last call: its name and arguments
    outcome,      \* how the last call ended: return or the exception raised
    result,       \* value the last call returned
    calls,        \* collaborator calls the last call made, in order
    memo          \* history: per sentence, what predict_sentence returned for it
                  \* since the object was last constructed, fitted or loaded

vars == <<self, trainer, fs, output_file, op, outcome, result, calls, memo>>

(***************************************************************************)
(* Bounds                                                                  *)
(***************************************************************************)
MaxEpochs == 2
MaxScore == 1

(***************************************************************************)
(* Values                                                                  *)
(***************************************************************************)
None == [none |-> TRUE]
Absent == [absent |-> TRUE]

\* A value a call returns, and an optional list argument (default None).
Value(v) == [value |-> v]
NoneArg == [some |-> FALSE]
List(v) == [some |-> TRUE, v |-> v]

\* Two embedding resources, told apart by their vector width, and one bundle
\* directory.
Embeddings == {1, 2}
Dirs == {"model_dir"}

\* Python truth of an optional list argument: neither None nor empty.
Truthy(a) == a.some /\ a.v # <<>>

Returned == [type |-> "return", origin |-> "return"]
Raised(type, origin) == [type |-> type, origin |-> origin]

\* The vocabulary of the model's corpora, in a fixed order.
TokenList == <<"John", "lives", "in", "Paris", "Hi">>
TokenId(t) == CHOOSE i \in 1..Len(TokenList) : TokenList[i] = t

\* Label '' is the padding label; the others are IOB tags.
LabelList == <<"O", "B-PER", "B-LOC">>
PAD == ""

SentJL == <<"John", "lives">>
SentH == <<"Hi">>
SentJLIP == <<"John", "lives", "in", "Paris">>

CorpusA == [x |-> <<SentJL, SentH>>, y |-> <<<<"B-PER", "O">>, <<"O">>>>]
CorpusB == [x |-> <<SentJLIP>>, y |-> <<<<"B-PER", "O", "O", "B-LOC">>>>]
CorpusShort == [x |-> <<SentJL>>, y |-> <<<<"O">>>>]
CorpusEmpty == [x |-> <<>>, y |-> <<>>]

TrainInputs == {CorpusA, CorpusB, CorpusShort, CorpusEmpty}
ValidInputs ==
    {[x |-> NoneArg, y |-> NoneArg],
     [x |-> List(<<>>), y |-> List(<<>>)],
     [x |-> List(CorpusA.x), y |-> List(CorpusA.y)],
     [x |-> List(CorpusShort.x), y |-> List(CorpusShort.y)]}
TestInputs == {CorpusA, [x |-> <<SentH>>, y |-> <<<<"O">>>>]}
PredictInputs == {SentJL, SentH}

\* x and y are parallel and every tag sequence is as long as its sentence.
Aligned(x, y) ==
    /\ Len(x) = Len(y)
    /\ \A i \in 1..Len(x) : Len(x[i]) = Len(y[i])

(***************************************************************************)
(* Collaborator: preprocessing.VectorTransformer                           *)
(***************************************************************************)
\* The (sentence, token) positions of a list of sequences, and what stands there.
Positions(y) == UNION {{<<i, j>> : j \in 1..Len(y[i])} : i \in 1..Len(y)}
WordsOf(x) == {x[ij[1]][ij[2]] : ij \in Positions(x)}
TagsOf(y) == {y[ij[1]][ij[2]] : ij \in Positions(y)}

VectorTransformer(embedding, use_char) ==
    [embedding |-> embedding, use_char |-> use_char, words |-> {}, labels |-> <<PAD>>]

\* fit: derives the vocabulary and the label index from the training data.
p_fit(p, x, y) ==
    [p EXCEPT !.words = WordsOf(x),
              !.labels = <<PAD>> \o SelectSeq(LabelList, LAMBDA l : l \in TagsOf(y))]

label_size(p) == Len(p.labels)
vector_len(p) == p.embedding

\* transform: one feature per token, from the embedding and the vocabulary.
TokenFeature(p, t) == TokenId(t) * p.embedding + (IF t \in p.words THEN 1 ELSE 0)
p_transform(p, x) == [i \in 1..Len(x) |-> [j \in 1..Len(x[i]) |-> TokenFeature(p, x[i][j])]]

\* inverse_transform: class indices back to labels, cut to the given lengths.
Min(a, b) == IF a < b THEN a ELSE b
InverseOk(p, y_pred) ==
    \A i \in 1..Len(y_pred) : \A j \in 1..Len(y_pred[i]) : y_pred[i][j] < label_size(p)
p_inverse_transform(p, y_pred, lengths) ==
    [i \in 1..Len(y_pred) |->
        [j \in 1..Min(Len(y_pred[i]), lengths[i]) |-> p.labels[y_pred[i][j] + 1]]]

\* save / load: the pickled state holds no embedding; load binds the given one.
p_save(p) == [use_char |-> p.use_char, words |-> p.words, labels |-> p.labels]
p_load(content, embedding) ==
    [embedding |-> embedding, use_char |-> content.use_char,
     words |-> content.words, labels |-> content.labels]

(***************************************************************************)
(* Collaborator: models.BiLSTMCRF, save_model, load_model                  *)
(***************************************************************************)
BiLSTMCRF(num_labels, word_embedding_dim) ==
    [num_labels |-> num_labels, word_embedding_dim |-> word_embedding_dim, weights |-> 0]

\* predict: one class index below num_labels per token.
model_predict(model, x) ==
    [i \in 1..Len(x) |->
        [j \in 1..Len(x[i]) |-> (x[i][j] + model.weights) % model.num_labels]]

save_model_weights(model) == [weights |-> model.weights]
save_model_params(model) ==
    [num_labels |-> model.num_labels, word_embedding_dim |-> model.word_embedding_dim]
load_model(weights, params) ==
    [num_labels |-> params.num_labels, word_embedding_dim |-> params.word_embedding_dim,
     weights |-> weights.weights]

(***************************************************************************)
(* Collaborator: seqeval f1_score, reduced to its counts                   *)
(***************************************************************************)
f1_score(y_true, y_pred) ==
    [tp |-> Cardinality({ij \in Positions(y_true) :
                /\ ij[1] <= Len(y_pred) /\ ij[2] <= Len(y_pred[ij[1]])
                /\ y_true[ij[1]][ij[2]] \notin {"O", PAD}
                /\ y_pred[ij[1]][ij[2]] = y_true[ij[1]][ij[2]]}),
     true |-> Cardinality({ij \in Positions(y_true) : y_true[ij[1]][ij[2]] \notin {"O", PAD}}),
     pred |-> Cardinality({ij \in Positions(y_pred) : y_pred[ij[1]][ij[2]] \notin {"O", PAD}})]

(***************************************************************************)
(* Sequence.__init__                                                       *)
(***************************************************************************)
NoReport == [no_attribute |-> TRUE]

Sequence(embedding) ==
    [model |-> None,
     p |-> VectorTransformer(embedding, TRUE),
     best_report |-> NoReport]

(***************************************************************************)
(* Sequence.predict_sentence                                               *)
(***************************************************************************)
predict_sentence(slf, sentence) ==
    LET x_test == p_transform(slf.p, <<sentence>>)
        lengths == <<Len(sentence)>>
    IN  IF slf.model = None
        THEN [outcome |-> Raised("AttributeError", "implicit"),
              calls |-> <<"p.transform">>, result |-> None]
        ELSE LET y_pred == model_predict(slf.model, x_test)
             IN  IF ~InverseOk(slf.p, y_pred)
                 THEN [outcome |-> Raised("IndexError", "collaborator"),
                       calls |-> <<"p.transform", "model.predict", "p.inverse_transform">>,
                       result |-> None]
                 ELSE [outcome |-> Returned,
                       calls |-> <<"p.transform", "model.predict", "p.inverse_transform">>,
                       result |-> Value(p_inverse_transform(slf.p, y_pred, lengths)[1])]

(***************************************************************************)
(* Sequence.score                                                          *)
(***************************************************************************)
\* score without its check of the model, as predict_sentence is written.
score_unguarded(slf, x_test, y_test) ==
    LET x == p_transform(slf.p, x_test)
    IN  IF slf.model = None
        THEN [self |-> slf, outcome |-> Raised("AttributeError", "implicit"),
              calls |-> <<"p.transform">>, result |-> None]
        ELSE [self |-> slf, outcome |-> Returned,
              calls |-> <<"p.transform", "model.predict", "p.inverse_transform",
                          "f1_score">>,
              result |-> Value(f1_score(y_test,
                            p_inverse_transform(slf.p, model_predict(slf.model, x),
                                [i \in 1..Len(y_test) |-> Len(y_test[i])])))]

\* score that fits the Preprocessor on the test data before transforming it.
score_refit(slf, x_test, y_test) ==
    IF slf.model # None
    THEN [self |-> [slf EXCEPT !.p = p_fit(slf.p, x_test, y_test)],
          outcome |-> Returned,
          calls |-> <<"p.fit", "p.transform", "model.predict", "p.inverse_transform",
                      "f1_score">>,
          result |-> None]
    ELSE [self |-> slf, outcome |-> Raised("OSError", "raise"),
          calls |-> <<>>, result |-> None]

score(slf, x_test, y_test) ==
    IF slf.model # None
    THEN LET x == p_transform(slf.p, x_test)
             lengths == [i \in 1..Len(y_test) |-> Len(y_test[i])]
             y_pred == model_predict(slf.model, x)
         IN  IF ~InverseOk(slf.p, y_pred)
             THEN [self |-> slf, outcome |-> Raised("IndexError", "collaborator"),
                   calls |-> <<"p.transform", "model.predict", "p.inverse_transform">>,
                   result |-> None]
             ELSE [self |-> slf, outcome |-> Returned,
                   calls |-> <<"p.transform", "model.predict", "p.inverse_transform",
                               "f1_score">>,
                   result |-> Value(f1_score(y_test,
                                              p_inverse_transform(slf.p, y_pred, lengths)))]
    ELSE [self |-> slf, outcome |-> Raised("OSError", "raise"),
          calls |-> <<>>, result |-> None]

(***************************************************************************)
(* Collaborator: trainer.Trainer                                           *)
(***************************************************************************)
Trainer(model, preprocessor) ==
    [model |-> model, best_model |-> None, best_model_report |-> None]

\* The weights an epoch leaves, and the first epoch with the highest score.
EpochWeights(x_train, k) == Cardinality(WordsOf(x_train)) + k
BestEpoch(scores) ==
    CHOOSE k \in 1..Len(scores) :
        /\ \A j \in 1..Len(scores) : scores[j] <= scores[k]
        /\ \A j \in 1..(k - 1) : scores[j] < scores[k]

\* train: `scores` are the validation scores the epochs obtain.
\* It raises on an empty training set and on sentences and tag sequences of
\* inconsistent lengths.
HasValidation(x_valid, y_valid) == Truthy(x_valid) /\ Truthy(y_valid)
InputsAligned(x_train, y_train, x_valid, y_valid) ==
    /\ Aligned(x_train, y_train)
    /\ HasValidation(x_valid, y_valid) => Aligned(x_valid.v, y_valid.v)
TrainAccepts(x_train, y_train, x_valid, y_valid) ==
    /\ x_train # <<>>
    /\ InputsAligned(x_train, y_train, x_valid, y_valid)
train(t, x_train, y_train, x_valid, y_valid, epochs, scores) ==
    LET at(k) == [t.model EXCEPT !.weights = EpochWeights(x_train, k)]
    IN  IF HasValidation(x_valid, y_valid)
        THEN [model |-> at(epochs),
              best_model |-> at(BestEpoch(scores)),
              best_model_report |-> [epoch |-> BestEpoch(scores),
                                     f1 |-> scores[BestEpoch(scores)]]]
        ELSE [t EXCEPT !.model = at(epochs)]

(***************************************************************************)
(* Sequence.fit                                                            *)
(***************************************************************************)
\* line 89: the condition under which fit adopts the Trainer's best model.
FitAdopts(x_train, y_valid) == x_train # <<>> /\ Truthy(y_valid)
\* lines 90-91: what it adopts.
\* Adopting the model of the last epoch instead of the best one.
AdoptedModel_current(t) == t.model
AdoptedModel(t) == t.best_model
AdoptedReport(t) == t.best_model_report

FitCalls == <<"p.fit", "BiLSTMCRF", "build", "compile", "Trainer", "train">>

fit(slf, x_train, y_train, x_valid, y_valid, epochs, scores) ==
    LET p1 == p_fit(slf.p, x_train, y_train)
        model == BiLSTMCRF(label_size(p1), vector_len(p1))
        t0 == Trainer(model, p1)
        t1 == train(t0, x_train, y_train, x_valid, y_valid, epochs, scores)
    IN  IF ~TrainAccepts(x_train, y_train, x_valid, y_valid)
        THEN [self |-> [slf EXCEPT !.p = p1], trainer |-> t0,
              outcome |-> Raised("ValueError", "collaborator"),
              calls |-> FitCalls, result |-> None]
        ELSE IF FitAdopts(x_train, y_valid)
        THEN [self |-> [model |-> AdoptedModel(t1), p |-> p1,
                        best_report |-> AdoptedReport(t1)],
              trainer |-> t1, outcome |-> Returned,
              calls |-> FitCalls, result |-> None]
        ELSE [self |-> [slf EXCEPT !.p = p1], trainer |-> t1,
              outcome |-> Returned, calls |-> FitCalls, result |-> None]

(***************************************************************************)
(* Sequence.predict_to_iob                                                 *)
(***************************************************************************)
\* load_data's result for the model's input files: sentences and, per token,
\* its auxiliary columns (the gold tags are not used).
IobInputs ==
    {[x |-> <<SentJL, SentH>>, ctags |-> <<<<<<"NNP">>, <<"VBZ">>>>, <<<<"UH">>>>>>],
     [x |-> <<SentH, SentJL>>, ctags |-> <<<<<<"UH", "x">>>>, <<<<>>, <<"VBZ">>>>>>],
     [x |-> <<>>, ctags |-> <<>>]}

\* lines 125-131: the text written for one token.
RECURSIVE with_ctags(_, _)
with_ctags(to_write, ctags) ==
    IF ctags = <<>> THEN to_write
    ELSE with_ctags(to_write \o " " \o Head(ctags), Tail(ctags))
token_text(token, prediction, ctags) ==
    IF prediction # ""
    THEN with_ctags(token, ctags) \o " " \o prediction
    ELSE with_ctags(token, ctags) \o " O\n"

\* line 124: zip(sentence, predictions, sent_ctags), from position j on.
RECURSIVE sentence_text(_, _, _, _)
sentence_text(sentence, predictions, sent_ctags, j) ==
    IF j > Min(Len(sentence), Min(Len(predictions), Len(sent_ctags))) THEN ""
    ELSE token_text(sentence[j], predictions[j], sent_ctags[j])
             \o sentence_text(sentence, predictions, sent_ctags, j + 1)

\* line 122: zip(x, all_ctags), from sentence i on; stops where
\* predict_sentence raises, with the text written until then.
RECURSIVE iob_loop(_, _, _, _)
iob_loop(slf, x, all_ctags, i) ==
    IF i > Min(Len(x), Len(all_ctags))
    THEN [text |-> "", outcome |-> Returned, calls |-> <<>>]
    ELSE LET pr == predict_sentence(slf, x[i])
         IN  IF pr.outcome # Returned
             THEN [text |-> "", outcome |-> pr.outcome, calls |-> pr.calls]
             ELSE LET rest == iob_loop(slf, x, all_ctags, i + 1)
                  IN  [text |-> sentence_text(x[i], pr.result.value, all_ctags[i], 1)
                                   \o "\n" \o rest.text,
                       outcome |-> rest.outcome,
                       calls |-> pr.calls \o rest.calls]

predict_to_iob(slf, input) ==
    LET r == iob_loop(slf, input.x, input.ctags, 1)
    IN  [self |-> slf, output |-> [text |-> r.text], outcome |-> r.outcome,
         calls |-> <<"open", "load_data">> \o r.calls, result |-> None]

(***************************************************************************)
(* Sequence.save, Sequence.load                                            *)
(***************************************************************************)
weights_file == "weights.pkl"
params_file == "params.pkl"
preprocessor_file == "preprocessor.pkl"
FileNames == {weights_file, params_file, preprocessor_file}

\* save_model raises on a missing model before it writes anything.
save(slf, fsys, model_path) ==
    LET d1 == [fsys[model_path] EXCEPT ![preprocessor_file] = p_save(slf.p)]
    IN  IF slf.model = None
        THEN [self |-> slf, fs |-> [fsys EXCEPT ![model_path] = d1],
              outcome |-> Raised("AttributeError", "collaborator"),
              calls |-> <<"p.save", "save_model">>, result |-> None]
        ELSE [self |-> slf,
              fs |-> [fsys EXCEPT ![model_path] =
                         [d1 EXCEPT ![weights_file] = save_model_weights(slf.model),
                                    ![params_file] = save_model_params(slf.model)]],
              outcome |-> Returned,
              calls |-> <<"p.save", "save_model">>, result |-> None]

\* load that keeps the Preprocessor its constructor made.
load_default_p(fsys, model_path, embedding_object) ==
    LET d == fsys[model_path]
        new == Sequence(embedding_object)
    IN  IF \E f \in FileNames : d[f] = Absent
        THEN [outcome |-> Raised("FileNotFoundError", "collaborator"),
              calls |-> <<"VectorTransformer", "load_model">>, result |-> None]
        ELSE [outcome |-> Returned,
              calls |-> <<"VectorTransformer", "load_model", "VectorTransformer.load">>,
              result |-> Value([new EXCEPT
                            !.model = load_model(d[weights_file], d[params_file])])]

load(fsys, model_path, embedding_object) ==
    LET d == fsys[model_path]
        new == Sequence(embedding_object)
    IN  IF d[weights_file] = Absent \/ d[params_file] = Absent
        THEN [outcome |-> Raised("FileNotFoundError", "collaborator"),
              calls |-> <<"VectorTransformer", "load_model">>, result |-> None]
        ELSE IF d[preprocessor_file] = Absent
        THEN [outcome |-> Raised("FileNotFoundError", "collaborator"),
              calls |-> <<"VectorTransformer", "load_model", "VectorTransformer.load">>,
              result |-> None]
        ELSE [outcome |-> Returned,
              calls |-> <<"VectorTransformer", "load_model", "VectorTransformer.load">>,
              result |-> Value([new EXCEPT
                            !.model = load_model(d[weights_file], d[params_file]),
                            !.p = p_load(d[preprocessor_file], embedding_object)])]

(***************************************************************************)
(* The caller: one Sequence object, used through its methods               *)
(***************************************************************************)
NoMemo == [s \in PredictInputs |-> None]

Init ==
    /\ \E e \in Embeddings : self = Sequence(e) /\ op = [name |-> "__init__", embedding |-> e]
    /\ trainer = None
    /\ fs = [d \in Dirs |-> [f \in FileNames |-> Absent]]
    /\ output_file = Absent
    /\ outcome = Returned
    /\ result = None
    /\ calls = <<"VectorTransformer">>
    /\ memo = NoMemo

Construct ==
    \E e \in Embeddings :
        /\ self' = Sequence(e)
        /\ op' = [name |-> "__init__", embedding |-> e]
        /\ outcome' = Returned
        /\ result' = None
        /\ calls' = <<"VectorTransformer">>
        /\ trainer' = None
        /\ output_file' = Absent
        /\ memo' = NoMemo
        /\ UNCHANGED fs

\* The validation scores a run of `epochs` epochs can obtain: one per epoch when
\* there is validation data, none otherwise.
ScoreRuns(x_valid, y_valid, epochs, S) ==
    IF HasValidation(x_valid, y_valid) THEN [1..epochs -> S] ELSE {<<>>}

\* A fit of one of the epoch counts E whose validation scores are ones of S.
FitRuns(E, S) ==
    \E tr \in TrainInputs, va \in ValidInputs, epochs \in E :
    \E scores \in ScoreRuns(va.x, va.y, epochs, S) :
        LET r == fit(self, tr.x, tr.y, va.x, va.y, epochs, scores)
        IN  /\ self' = r.self
            /\ trainer' = r.trainer
            /\ op' = [name |-> "fit", x_train |-> tr.x, y_train |-> tr.y,
                      x_valid |-> va.x, y_valid |-> va.y, epochs |-> epochs]
            /\ outcome' = r.outcome
            /\ result' = r.result
            /\ calls' = r.calls
            /\ output_file' = Absent
            /\ memo' = NoMemo
            /\ UNCHANGED fs

Fit == FitRuns(1..MaxEpochs, 0..MaxScore)
FitOneEpoch == FitRuns({1}, {0})

Score ==
    \E te \in TestInputs :
        LET r == score(self, te.x, te.y)
        IN  /\ self' = r.self
            /\ op' = [name |-> "score", x_test |-> te.x, y_test |-> te.y]
            /\ outcome' = r.outcome
            /\ result' = r.result
            /\ calls' = r.calls
            /\ trainer' = None
            /\ output_file' = Absent
            /\ UNCHANGED <<fs, memo>>

PredictSentence ==
    \E s \in PredictInputs :
        LET r == predict_sentence(self, s)
        IN  /\ op' = [name |-> "predict_sentence", sentence |-> s]
            /\ outcome' = r.outcome
            /\ result' = r.result
            /\ calls' = r.calls
            /\ trainer' = None
            /\ output_file' = Absent
            /\ memo' = IF r.outcome = Returned THEN [memo EXCEPT ![s] = r.result]
                                              ELSE memo
            /\ UNCHANGED <<self, fs>>

PredictToIob ==
    \E input \in IobInputs :
        LET r == predict_to_iob(self, input)
        IN  /\ self' = r.self
            /\ output_file' = r.output
            /\ op' = [name |-> "predict_to_iob", input |-> input]
            /\ outcome' = r.outcome
            /\ result' = r.result
            /\ calls' = r.calls
            /\ trainer' = None
            /\ UNCHANGED <<fs, memo>>

Save ==
    \E d \in Dirs :
        LET r == save(self, fs, d)
        IN  /\ self' = r.self
            /\ fs' = r.fs
            /\ op' = [name |-> "save", model_path |-> d]
            /\ outcome' = r.outcome
            /\ result' = r.result
            /\ calls' = r.calls
            /\ trainer' = None
            /\ output_file' = Absent
            /\ UNCHANGED memo

Load ==
    \E d \in Dirs, e \in Embeddings :
        LET r == load(fs, d, e)
        IN  /\ self' = IF r.outcome = Returned THEN r.result.value ELSE self
            /\ op' = [name |-> "load", model_path |-> d, embedding_object |-> e]
            /\ outcome' = r.outcome
            /\ result' = r.result
            /\ calls' = r.calls
            /\ trainer' = None
            /\ output_file' = Absent
            /\ memo' = IF r.outcome = Returned THEN NoMemo ELSE memo
            /\ UNCHANGED fs

\* The object in memory: construction, training, scoring and inference.
Next ==
    \/ Construct
    \/ Fit
    \/ Score
    \/ PredictSentence
    \/ PredictToIob

Spec == Init /\ [][Next]_vars

\* The object and its bundle directory: every method, each fit of one epoch.
NextBundle ==
    \/ Construct
    \/ FitOneEpoch
    \/ Score
    \/ PredictSentence
    \/ PredictToIob
    \/ Save
    \/ Load

SpecBundle == Init /\ [][NextBundle]_vars

(***************************************************************************)
(* Properties                                                              *)
(***************************************************************************)
\* The condition score raises at line 116 when no model is held.
ModelNotLoaded == Raised("OSError", "raise")
ShapeMismatch == Raised("ShapeMismatch", "raise")

\* C1: score on an object without a model raises the explicit error, returns
\* no score, calls no collaborator and leaves the model and the Preprocessor
\* as they were.
C1_ScoreWithoutModel ==
    [][(op'.name = "score" /\ self.model = None) =>
          /\ outcome' = ModelNotLoaded
          /\ result' = None
          /\ calls' = <<>>
          /\ self' = self]_vars

C1_Witness ==
    /\ op.name = "score"
    /\ self.model = None
    /\ outcome = ModelNotLoaded

\* C2: predict_sentence on an object without a model raises the same explicit
\* error as score, before any collaborator is called, and predicts nothing.
C2_PredictWithoutModel ==
    (op.name = "predict_sentence" /\ self.model = None) =>
        /\ outcome = ModelNotLoaded
        /\ calls = <<>>
        /\ result = None

\* C3: a fit without validation labels that returns normally leaves the
\* Trainer's current model as the live model, so a model is held afterwards.
C3_FitWithoutValidationAdopts ==
    (op.name = "fit" /\ outcome = Returned /\ ~Truthy(op.y_valid)) =>
        /\ self.model = trainer.model
        /\ self.model # None

\* C4: a fit with non-empty training data and non-empty validation labels that
\* returns normally leaves the Trainer's best_model as the live model and its
\* best_model_report as the recorded report.
C4_FitAdoptsBest ==
    (op.name = "fit" /\ outcome = Returned /\ op.x_train # <<>> /\ Truthy(op.y_valid)) =>
        /\ self.model = trainer.best_model
        /\ self.model # None
        /\ self.best_report = trainer.best_model_report

C4_Witness ==
    /\ op.name = "fit"
    /\ outcome = Returned
    /\ op.x_train # <<>>
    /\ Truthy(op.y_valid)
    /\ trainer.best_model # trainer.model
    /\ self.model = trainer.best_model

\* C5: a fit whose sentences and tag sequences have inconsistent lengths fails
\* with ShapeMismatch before any collaborator is called, and leaves the
\* Preprocessor and the model as they were.
C5_FitShapeMismatch ==
    [][(op'.name = "fit" /\ ~InputsAligned(op'.x_train, op'.y_train,
                                           op'.x_valid, op'.y_valid)) =>
          /\ outcome' = ShapeMismatch
          /\ calls' = <<>>
          /\ self' = self]_vars

\* The text C6 describes: per sentence, one newline-terminated line per token
\* (token, auxiliary columns, tag or O), then one blank line.
RECURSIVE ExpectedColumns(_)
ExpectedColumns(ctags) ==
    IF ctags = <<>> THEN "" ELSE " " \o Head(ctags) \o ExpectedColumns(Tail(ctags))
ExpectedLine(token, ctags, tag) ==
    token \o ExpectedColumns(ctags) \o " " \o (IF tag = "" THEN "O" ELSE tag) \o "\n"
RECURSIVE ExpectedBlock(_, _, _, _)
ExpectedBlock(sentence, sent_ctags, tags, j) ==
    IF j > Len(sentence) THEN "\n"
    ELSE ExpectedLine(sentence[j], sent_ctags[j], tags[j])
             \o ExpectedBlock(sentence, sent_ctags, tags, j + 1)
RECURSIVE ExpectedIob(_, _, _)
ExpectedIob(slf, input, i) ==
    IF i > Len(input.x) THEN ""
    ELSE ExpectedBlock(input.x[i], input.ctags[i],
                       predict_sentence(slf, input.x[i]).result.value, 1)
             \o ExpectedIob(slf, input, i + 1)

\* C6: the text predict_to_iob writes is, in sentence order, one block per
\* sentence: a line per token ending in its tag (O for an empty tag) and a
\* newline, then a blank line.
C6_IobText ==
    (op.name = "predict_to_iob" /\ outcome = Returned) =>
        output_file = [text |-> ExpectedIob(self, op.input, 1)]

\* C7: right after save returns, load from the same directory with the same
\* embedding gives an object with the saver's model and Preprocessor state,
\* and predict_sentence agrees on every sentence.
C7_SaveLoadRoundTrip ==
    (op.name = "save" /\ outcome = Returned) =>
        LET r == load(fs, op.model_path, self.p.embedding)
        IN  /\ r.outcome = Returned
            /\ r.result.value.model = self.model
            /\ r.result.value.p = self.p
            /\ \A s \in PredictInputs :
                   predict_sentence(r.result.value, s).result
                       = predict_sentence(self, s).result

\* A save of a fitted object whose predictions a load with another embedding
\* would change.
C7_Witness ==
    /\ op.name = "save"
    /\ outcome = Returned
    /\ self.p.words # {}
    /\ \E s \in PredictInputs : predict_sentence(self, s).outcome = Returned
    /\ \E e \in Embeddings, s \in PredictInputs :
           predict_sentence(load(fs, op.model_path, e).result.value, s).result
               # predict_sentence(self, s).result

\* A bundle with a file missing, or whose model and Preprocessor state differ
\* in the label count.
BundlePartial(d) == \E f \in FileNames : d[f] = Absent
BundleMismatched(d) ==
    ~BundlePartial(d) /\ d[params_file].num_labels # Len(d[preprocessor_file].labels)

\* C8: load of a partial or mismatched bundle ends in an error, and an object
\* load returns never has a model and a Preprocessor that differ in the label
\* count.
C8_LoadRejectsBadBundle ==
    op.name = "load" =>
        /\ (BundlePartial(fs[op.model_path]) \/ BundleMismatched(fs[op.model_path]))
               => outcome # Returned
        /\ outcome = Returned => self.model.num_labels = label_size(self.p)

\* C9: predict_sentence, score, predict_to_iob and save leave the model and the
\* Preprocessor state as they were, and predict_sentence returns for a
\* sentence what it returned for it before, as long as no construction, fit
\* or load came between.
C9_InferenceFrame ==
    [][/\ op'.name \in {"predict_sentence", "score", "predict_to_iob", "save"} =>
             /\ self'.model = self.model
             /\ self'.p = self.p
       /\ (op'.name = "predict_sentence" /\ memo[op'.sentence] # None) =>
             result' = memo[op'.sentence]]_vars

\* Every sentence has been predicted with a non-padding tag and a save has
\* been made since: a predict_sentence that follows must repeat the answer.
C9_Witness ==
    /\ op.name = "save"
    /\ outcome = Returned
    /\ \A s \in PredictInputs :
           /\ memo[s] # None
           /\ \E j \in 1..Len(memo[s].value) : memo[s].value[j] # PAD

\* A held model has as many labels as the Preprocessor's label index.
ModelMatchesVocabulary(slf) ==
    slf.model # None => slf.model.num_labels = label_size(slf.p)

\* C10: a construct, fit or load that returns normally never leaves a model
\* whose label count differs from the Preprocessor's label_size: begun
\* in a state without such a model, the call ends in one.
C10_ModelKeyedToVocabulary ==
    [][(/\ op'.name \in {"__init__", "fit", "load"}
        /\ outcome' = Returned
        /\ ModelMatchesVocabulary(self)) => ModelMatchesVocabulary(self')]_vars

====
